---- MODULE Spec2Model ----
\* Model of the headless analytics controller (lib/analyticsController.ts, kept in
\* src/SOLUTION.md lines 199-882) and of the browser environment that drives it:
\* the wall clock, interval timers, media streams, audio contexts, face workers,
\* the speech-recognition service, the metrics bus and the window event target.
\*
\* Time is in milliseconds.  Loudness (rms), sentiment and tone values are
\* fixed-point numbers in thousandths.  An optional value is a sequence of
\* length at most one: <<>> is undefined, <<v>> is the defined value v.
\* Text is a sequence of one-character strings.
EXTENDS Integers, Sequences, FiniteSets, TLC

\* ---------------------------------------------------------------- bounds
MaxStarts == 2
MaxStops == 2
MaxAdvances == 2
MaxTicks == 3
MaxIngest == 2
LongTicks == 34
LongFinals == 32
LongIngest == 1
LongAlt == 1
MaxWin == 4
MaxListeners == 2
MaxText == 4
MaxUnsubscribes == 1
ToneWin == 10

\* ------------------------------------------------------ program constants
TONE_HISTORY_SIZE == 30
MAX_METRICS_BUFFER == 32
RMS_NOISE_FLOOR == 10
WPM_WINDOW_SEC == 30
METRICS_HZ == 10
\* setInterval(publishMetrics, 1000 / metricsHz)
TICK_MS == 1000 \div METRICS_HZ

NULL == 0
Undef == <<>>
Some(v) == <<v>>
IsDef(o) == o # <<>>
Val(o) == o[1]
\* JavaScript `x || 0` on an optional number.
OrZero(o) == IF IsDef(o) THEN Val(o) ELSE 0

StartIds == 1..MaxStarts

\* ---------------------------------------------------------------- helpers
RECURSIVE SumSeq(_)
SumSeq(s) == IF s = <<>> THEN 0 ELSE Head(s) + SumSeq(Tail(s))

RECURSIVE SumSq(_)
SumSq(s) == IF s = <<>> THEN 0 ELSE Head(s) * Head(s) + SumSq(Tail(s))

\* Array.prototype.filter is SelectSeq.

\* The last n elements of s (all of s when it is shorter).
LastN(s, n) == IF Len(s) <= n THEN s ELSE SubSeq(s, Len(s) - n + 1, Len(s))

Min2(a, b) == IF a < b THEN a ELSE b
Max2(a, b) == IF a > b THEN a ELSE b

\* Largest r with r * r <= n, by bisection on [lo, hi].
RECURSIVE ISqrtIn(_, _, _)
ISqrtIn(n, lo, hi) ==
  IF lo >= hi THEN lo
  ELSE LET mid == (lo + hi + 1) \div 2
       IN IF mid * mid <= n THEN ISqrtIn(n, mid, hi) ELSE ISqrtIn(n, lo, mid - 1)
ISqrt(n) == ISqrtIn(n, 0, Min2(n, 46340))

\* Math.round of the rational a / b (b > 0): nearest integer, halves upward.
\* x \div y in TLA+ is the floor of x / y, as Math.round needs.
RoundDiv(a, b) == (2 * a + b) \div (2 * b)

\* Truncating division toward zero of a by b (b > 0), for fixed-point values.
TruncDiv(a, b) == IF a >= 0 THEN a \div b ELSE -((-a) \div b)

\* Array.prototype.shift: drop the oldest element.
ShiftNewest(s) == SubSeq(s, 1, Len(s) - 1)
ShiftOldest(s) == Tail(s)
\* push then `if (length > cap) shift()`: append and evict the oldest.
PushUnbounded(s, v, cap) == Append(s, v)
PushBounded(s, v, cap) ==
  LET t == Append(s, v) IN IF Len(t) > cap THEN ShiftOldest(t) ELSE t

\* ------------------------------------------------------------- text model
IsSpace(c) == c = " "

\* String.prototype.trim on a character sequence.
RECURSIVE TrimLeft(_)
TrimLeft(s) == IF s # <<>> /\ IsSpace(Head(s)) THEN TrimLeft(Tail(s)) ELSE s
RECURSIVE TrimRight(_)
TrimRight(s) ==
  IF s # <<>> /\ IsSpace(s[Len(s)]) THEN TrimRight(SubSeq(s, 1, Len(s) - 1)) ELSE s
Trim(s) == TrimRight(TrimLeft(s))

\* s.split(/\s+/): the pieces between maximal runs of whitespace.  As in
\* JavaScript, the empty string splits into one empty piece, and leading or
\* trailing whitespace yields an empty first or last piece.
RECURSIVE SplitFrom(_, _, _)
SplitFrom(s, cur, inGap) ==
  IF s = <<>> THEN <<cur>>
  ELSE IF IsSpace(Head(s))
       THEN IF inGap THEN SplitFrom(Tail(s), cur, TRUE)
            ELSE <<cur>> \o SplitFrom(Tail(s), <<>>, TRUE)
       ELSE SplitFrom(Tail(s), Append(cur, Head(s)), FALSE)
SplitWs(s) == SplitFrom(s, <<>>, FALSE)

\* The words the filler pattern matches (FILLER_REGEX of lib/config.ts).
FillerWords == { <<"u", "m">>, <<"u", "h">>, <<"l", "i", "k", "e">> }
IsFiller(w) == w \in FillerWords
\* (text.match(FILLER_REGEX) || []).length
CountFillers(text) == Len(SelectSeq(SplitWs(text), IsFiller))

\* sentiment.analyze(text).score: the sum of the lexicon scores of the words.
WordScore(w) ==
  IF w = <<"g", "o", "o", "d">> THEN 3
  ELSE IF w = <<"b", "a", "d">> THEN -3
  ELSE 0
RECURSIVE SumScores(_)
SumScores(ws) == IF ws = <<>> THEN 0 ELSE WordScore(Head(ws)) + SumScores(Tail(ws))
SentimentScore(text) == SumScores(SplitWs(text))
\* Math.max(-1, Math.min(1, score / 3)), in thousandths.
NormalizeSentiment(score) == Max2(-1000, Min2(1000, TruncDiv(score * 1000, 3)))

\* ------------------------------------------------------- metric functions
\* calculateWPM: the word timeline pruned to the trailing window.
KeepAllWords(wordTimestamps, now) == wordTimestamps
PruneWords(wordTimestamps, now) ==
  LET cutoff == now - WPM_WINDOW_SEC * 1000
      Recent(w) == w.t >= cutoff
  IN SelectSeq(wordTimestamps, Recent)

\* calculateWPM: Math.round((words / WPM_WINDOW_SEC) * 60), 0 for no words.
WpmOf(words) ==
  IF Len(words) = 0 THEN 0 ELSE RoundDiv(Len(words) * 60, WPM_WINDOW_SEC)

\* calculatePauseRatio: the fraction pauses / length as the rational
\* [num, den]; 0 (0/1) for an empty window.
PauseThreshold == RMS_NOISE_FLOOR * 2
IsPauseInclusive(rms) == rms <= PauseThreshold
IsPause(rms) == rms < PauseThreshold
calculatePauseRatio(rmsHistory) ==
  IF Len(rmsHistory) = 0 THEN [num |-> 0, den |-> 1]
  ELSE [num |-> Len(SelectSeq(rmsHistory, IsPause)), den |-> Len(rmsHistory)]

\* calculateFillersPerMin: fillerCount / elapsedMin as the rational [num, den],
\* 0 when no time has elapsed.
calculateFillersPerMinUnguarded(fillerCount, now, startTime) ==
  [num |-> fillerCount * 60000, den |-> now - startTime]
calculateFillersPerMin(fillerCount, now, startTime) ==
  IF now - startTime = 0 THEN [num |-> 0, den |-> 1]
  ELSE [num |-> fillerCount * 60000, den |-> now - startTime]

\* calculateToneScore, in thousandths.  The coefficient of variation
\* sqrt(var) / mean of the voiced pitches equals sqrt(n*Q - S*S) / S for their
\* count n, sum S and sum of squares Q.
IsVoiced(p) == p > 0
\* `if (validPitches.length < 5) return undefined` is the negation of this.
EnoughVoicedOne(validPitches) == Len(validPitches) >= 1
EnoughVoiced(validPitches) == Len(validPitches) >= 5
ClampNone(x) == x
Clamp1000(x) == Max2(-1000, Min2(1000, x))
\* The weighted combination: 0.25, 0.25 and 0.5 as 2/8, 2/8 and 4/8; the
\* result is in units of 1/4000.  The pitch-level and volume scores are
\* computed by the code but take no part in it.
WeightedToneWithVolume(varianceScore, pitchLevelScore, volumeScore, rateScore, sentimentScore) ==
  varianceScore + rateScore + 2 * sentimentScore + volumeScore
WeightedTone(varianceScore, pitchLevelScore, volumeScore, rateScore, sentimentScore) ==
  varianceScore + rateScore + 2 * sentimentScore
calculateToneScore(pitchHistory, rmsHistory, wpmHistory, sentimentHistory) ==
  IF Len(pitchHistory) < 10 \/ Len(rmsHistory) < 10 THEN Undef
  ELSE LET validPitches == SelectSeq(pitchHistory, IsVoiced) IN
    IF ~EnoughVoiced(validPitches) THEN Undef
    ELSE LET n == Len(validPitches)
             S == SumSeq(validPitches)
             Q == SumSq(validPitches)
             pitchCV == (ISqrt(10000 * (n * Q - S * S)) * 10) \div S
             varianceScore == (pitchCV - 70) * 20
             pitchLevelScore == TruncDiv((S - 200 * n) * 20, n)
             volumeScore ==
               TruncDiv((SumSeq(rmsHistory) - 80 * Len(rmsHistory)) * 50,
                        3 * Len(rmsHistory))
             rateScore ==
               IF Len(wpmHistory) > 0
               THEN TruncDiv((SumSeq(wpmHistory) - 135 * Len(wpmHistory)) * 1000,
                             35 * Len(wpmHistory))
               ELSE 0
             sentimentScore ==
               IF Len(sentimentHistory) > 0
               THEN TruncDiv(SumSeq(sentimentHistory), Len(sentimentHistory))
               ELSE 0
             toneScore == WeightedTone(varianceScore, pitchLevelScore, volumeScore,
                                       rateScore, sentimentScore)
         IN Some(Clamp1000(TruncDiv(toneScore * 3, 8)))

\* ------------------------------------------------------------------ state
VARIABLES
  ctl,        \* the controller's closure variables
  env,        \* the browser: clock, timers, streams, contexts, workers, ASR
  startPc,    \* where each start() call is suspended
  startOpts,  \* the options each start() call was given
  stops,      \* the stop() calls suspended at `await audioContext.close()`
  out,        \* what listeners saw: how many events the metrics bus published
              \* and the window dispatched as creao:metrics, the last of each,
              \* and the creao:started / creao:stopped events in order
  gh,         \* history variables used to state the properties
  cnt,        \* how many environment events have happened
  lim,        \* the scenario: how many of each event may happen
  probe       \* input and result of a pure function applied on its own

vars == <<ctl, env, startPc, startOpts, stops, out, gh, cnt, lim, probe>>

EmptyAudio == [pitch |-> Undef, rms |-> Undef]
EmptyFace == [yaw |-> Undef, pitch |-> Undef, blinkPerMin |-> Undef,
              smile |-> Undef, gazeJitter |-> Undef]

AudioFrames == { [pitch |-> Some(0), rms |-> Some(5)],
                 [pitch |-> Some(200), rms |-> Some(50)],
                 [pitch |-> Some(220), rms |-> Some(20)] }
FaceFrames == { [yaw |-> Some(0), pitch |-> Some(0), blinkPerMin |-> Some(15),
                 smile |-> Some(300), gazeJitter |-> Some(10)],
                [yaw |-> Some(5), pitch |-> Some(3), blinkPerMin |-> Some(20),
                 smile |-> Some(500), gazeJitter |-> Some(15)] }
FinalTexts == { <<"u", "m">>, <<"g", "o", "o", "d", " ", "u", "h">>, <<"b", "a", "d">> }
InterimTexts == { <<"u">> }

\* The state createAnalyticsController() builds.
InitCtl ==
  [ isRunning |-> FALSE, startTime |-> 0, endTime |-> 0,
    stream |-> NULL, mediaRecorder |-> NULL,
    audioContext |-> NULL, audioWorkletNode |-> NULL, latestAudioData |-> EmptyAudio,
    faceWorker |-> NULL, faceLoopId |-> NULL, latestFaceData |-> EmptyFace,
    transcriptFinal |-> <<>>, transcriptInterim |-> <<>>,
    wordTimestamps |-> <<>>, fillerCount |-> 0,
    pitchHistory |-> <<>>, rmsHistory |-> <<>>, wpmHistory |-> <<>>,
    sentimentHistory |-> <<>>,
    allMetrics |-> <<>>, metricsIntervalId |-> NULL, videoElement |-> FALSE ]

InitEnv(avail) ==
  [ now |-> 1000, due |-> {}, timers |-> {},
    liveStreams |-> {}, liveContexts |-> {}, liveWorkers |-> {}, recorders |-> {},
    audioPorts |-> {}, faceHandlers |-> {}, srcObject |-> NULL,
    asrAvailable |-> avail, asrActive |-> FALSE,
    peer |-> InitCtl ]

InitGh ==
  [ stopped |-> FALSE, raced |-> FALSE, restops |-> 0,
    events |-> <<>>, at |-> <<>>, heard |-> <<>>,
    pitch |-> <<>>, rms |-> <<>>, wpm |-> <<>>, sent |-> <<>>,
    audioSeen |-> FALSE, faceSeen |-> FALSE,
    lastAudio |-> EmptyAudio, lastFace |-> EmptyFace, lateFrames |-> 0, clean |-> FALSE,
    unread |-> FALSE, superseded |-> FALSE ]

InitCnt == [starts |-> 0, stops |-> 0, advances |-> 0, ingest |-> 0, alt |-> 0]

\* Nothing published or dispatched yet, and no listener on the bus.
InitOut ==
  [ published |-> 0, lastPublished |-> Undef,
    dispatched |-> 0, lastDispatched |-> Undef, lifecycle |-> <<>>,
    listeners |-> <<>>, received |-> <<>>, observed |-> <<>> ]

NoProbe == [fn |-> "none", arg |-> <<>>, res |-> [num |-> 0, den |-> 1]]

InitWith(limits) ==
  /\ lim = limits
  /\ ctl = InitCtl
  /\ \E avail \in limits.asrAvail : env = InitEnv(avail)
  /\ startPc = [i \in StartIds |-> "idle"]
  /\ startOpts = [i \in StartIds |-> [videoEl |-> TRUE, useASR |-> TRUE]]
  /\ stops = <<>>
  /\ out = InitOut
  /\ gh = InitGh
  /\ cnt = InitCnt
  /\ probe = NoProbe

\* ------------------------------------------------- the controller's steps
\* The part of the state a controller step can change, as one value, so that
\* stop() can be run from start()'s error handler.
St ==
  [ctl |-> ctl, env |-> env, stops |-> stops, out |-> out, gh |-> gh,
   susp |-> FALSE, self |-> "A"]
Commit(s) ==
  /\ ctl' = s.ctl
  /\ env' = s.env
  /\ stops' = s.stops
  /\ out' = s.out
  /\ gh' = s.gh

\* window.dispatchEvent(new Event(type)) for creao:started and creao:stopped.
Dispatch(s, type) == [s EXCEPT !.out.lifecycle = Append(@, type)]

\* stop(): `if (!isRunning && !stream) return;`
StopNeverReturnsEarly(c) == FALSE
StopReturnsEarly(c) == ~c.isRunning /\ c.stream = NULL

\* stop(): clearInterval(metricsIntervalId) on the browser's timers.
ClearInterval(timers, id) == timers \ {id}

\* stop() after `await audioContext.close()`: audioContext = null, stop the
\* recorder, stop the stream's tracks, clear the video element, dispatch
\* creao:stopped.
StopTail(s) ==
  LET c == s.ctl
      s1 == [s EXCEPT
               !.ctl.audioContext = NULL,
               !.ctl.stream = NULL,
               !.env.recorders = @ \ {c.mediaRecorder},
               !.env.liveStreams = @ \ {c.stream},
               !.env.srcObject = IF c.videoElement THEN NULL ELSE @]
  IN Dispatch(s1, "creao:stopped")

\* stop() up to its first suspension.  susp tells whether the call is now
\* suspended at `await audioContext.close()`.
DoStop(s, caller) ==
  LET c == s.ctl IN
  IF StopReturnsEarly(c) THEN [s EXCEPT !.susp = FALSE]
  ELSE
    LET s1 == [s EXCEPT
                 !.ctl.isRunning = FALSE,
                 !.ctl.endTime = s.env.now,
                 !.ctl.metricsIntervalId = NULL,
                 !.env.timers = ClearInterval(@, c.metricsIntervalId),
                 !.env.due = @ \ {c.metricsIntervalId},
                 !.env.asrActive = FALSE,
                 !.ctl.faceLoopId = NULL,
                 !.ctl.faceWorker = NULL,
                 !.env.liveWorkers = @ \ {c.faceWorker},
                 !.ctl.audioWorkletNode = NULL]
    IN IF c.audioContext # NULL
       THEN [s1 EXCEPT !.stops = Append(@, [caller |-> caller, ctx |-> c.audioContext]),
                       !.susp = TRUE]
       ELSE [StopTail(s1) EXCEPT !.susp = FALSE]

\* start()'s `catch (error) { await this.stop(); throw error; }` for call i.
Catch(s, i) ==
  LET s1 == DoStop(s, i)
  IN /\ Commit(s1)
     /\ startPc' = [startPc EXCEPT ![i] = IF s1.susp THEN "catchStop" ELSE "rejected"]

\* start(): "Reset state".
ResetStateKeepsSnapshots(c) ==
  [c EXCEPT !.transcriptFinal = <<>>, !.transcriptInterim = <<>>,
            !.wordTimestamps = <<>>, !.fillerCount = 0,
            !.allMetrics = <<>>,
            !.pitchHistory = <<>>, !.rmsHistory = <<>>, !.wpmHistory = <<>>,
            !.sentimentHistory = <<>>]
ResetState(c) ==
  [c EXCEPT !.transcriptFinal = <<>>, !.transcriptInterim = <<>>,
            !.wordTimestamps = <<>>, !.fillerCount = 0,
            !.allMetrics = <<>>,
            !.latestAudioData = EmptyAudio, !.latestFaceData = EmptyFace,
            !.pitchHistory = <<>>, !.rmsHistory = <<>>, !.wpmHistory = <<>>,
            !.sentimentHistory = <<>>]

ResetGh(g) ==
  [g EXCEPT !.stopped = FALSE, !.raced = FALSE,
            !.events = <<>>, !.at = <<>>, !.heard = <<>>,
            !.pitch = <<>>, !.rms = <<>>, !.wpm = <<>>, !.sent = <<>>,
            !.audioSeen = FALSE, !.faceSeen = FALSE,
            !.lastAudio = EmptyAudio, !.lastFace = EmptyFace, !.lateFrames = 0,
            !.unread = FALSE, !.superseded = FALSE]

\* start(): `if (isRunning) throw new Error('Already running')`.
StartNeverRejects(c) == FALSE
StartRejectsRunning(c) == c.isRunning

InFlight(pc) == pc \in {"gum", "play", "worklet", "face", "catchStop"}
NoStartInFlight == \A i \in StartIds : ~InFlight(startPc[i])
\* No call of the controller is in progress.
Awaited == NoStartInFlight /\ stops = <<>>

\* start(opts) is called: the guard, the reset, and getUserMedia is requested.
CallStart ==
  /\ cnt.starts < lim.starts
  /\ LET i == cnt.starts + 1 IN
     \E v \in lim.videoOpts, a \in lim.asrOpts :
       /\ cnt' = [cnt EXCEPT !.starts = i]
       /\ startOpts' = [startOpts EXCEPT ![i] = [videoEl |-> v, useASR |-> a]]
       /\ IF StartRejectsRunning(ctl)
          THEN /\ startPc' = [startPc EXCEPT ![i] = "rejectedRunning"]
               /\ UNCHANGED <<ctl, env, stops, out, gh>>
          ELSE /\ startPc' = [startPc EXCEPT ![i] = "gum"]
               /\ ctl' = ResetState(ctl)
               /\ gh' = [ResetGh(gh) EXCEPT !.clean = (stops = <<>> /\ NoStartInFlight)]
               /\ UNCHANGED <<env, stops, out>>
  /\ UNCHANGED <<lim, probe>>

\* start(): from the stream being attached to the video element on, up to
\* `await audioContext.audioWorklet.addModule(...)`.
AfterPlay(s, i) ==
  IF s.ctl.stream = NULL
  THEN Catch(s, i)                \* stream.getAudioTracks() on null
  ELSE /\ Commit([s EXCEPT !.ctl.audioContext = i,
                           !.env.liveContexts = @ \cup {i}])
       /\ startPc' = [startPc EXCEPT ![i] = "worklet"]

\* start(): setupASR, setupRecorder, setInterval, isRunning = true,
\* startTime = Date.now(), creao:started.
StartTail(s, i, recorderOk) ==
  LET asrOn == startOpts[i].useASR /\ s.env.asrAvailable
      s1 == [s EXCEPT !.env.asrActive = IF asrOn THEN TRUE ELSE @]
  IN IF s1.ctl.stream = NULL \/ ~recorderOk
     THEN Catch(s1, i)            \* new MediaRecorder(null) or a recorder error
     ELSE /\ Commit(Dispatch(
               [s1 EXCEPT !.ctl.mediaRecorder = i,
                          !.env.recorders = @ \cup {i},
                          !.env.timers = @ \cup {i},
                          !.ctl.metricsIntervalId = i,
                          !.ctl.isRunning = TRUE,
                          !.ctl.startTime = s.env.now],
               "creao:started"))
          /\ startPc' = [startPc EXCEPT ![i] = "resolved"]

Outcomes == IF lim.failures THEN {TRUE, FALSE} ELSE {TRUE}

\* getUserMedia settles for call i.
ResumeGum ==
  /\ \E i \in StartIds, ok \in Outcomes :
       /\ startPc[i] = "gum"
       /\ IF ~ok THEN Catch(St, i)
          ELSE LET s1 == [St EXCEPT !.ctl.stream = i,
                                    !.env.liveStreams = @ \cup {i}]
               IN IF startOpts[i].videoEl
                  THEN /\ Commit([s1 EXCEPT !.ctl.videoElement = TRUE,
                                            !.env.srcObject = i])
                       /\ startPc' = [startPc EXCEPT ![i] = "play"]
                  ELSE AfterPlay(s1, i)
  /\ UNCHANGED <<startOpts, cnt, lim, probe>>

\* videoEl.play() settles for call i.
ResumePlay ==
  /\ \E i \in StartIds, ok \in Outcomes :
       /\ startPc[i] = "play"
       /\ IF ~ok THEN Catch(St, i) ELSE AfterPlay(St, i)
  /\ UNCHANGED <<startOpts, cnt, lim, probe>>

\* addModule settles for call i: the worklet node is created on the current
\* audioContext and the face pipeline is set up when there is a video element.
ResumeWorklet ==
  /\ \E i \in StartIds, ok \in Outcomes, recorderOk \in Outcomes :
       /\ startPc[i] = "worklet"
       /\ IF ~ok \/ ctl.audioContext = NULL
          THEN Catch(St, i)       \* load error, or new AudioWorkletNode(null)
          ELSE LET s1 == [St EXCEPT !.ctl.audioWorkletNode = ctl.audioContext,
                                    !.env.audioPorts = @ \cup {ctl.audioContext}]
               IN IF ctl.videoElement
                  THEN /\ Commit([s1 EXCEPT !.ctl.faceWorker = i,
                                            !.env.liveWorkers = @ \cup {i}])
                       /\ startPc' = [startPc EXCEPT ![i] = "face"]
                  ELSE StartTail(s1, i, recorderOk)
  /\ UNCHANGED <<startOpts, cnt, lim, probe>>

\* The face worker of call i answers 'initialized' or 'error', or the 30 s
\* timeout fires.  A terminated worker answers nothing.
FaceOutcomes(i) ==
  (IF i \in env.liveWorkers THEN {"initialized"} ELSE {})
  \cup (IF lim.failures /\ i \in env.liveWorkers THEN {"error"} ELSE {})
  \cup (IF lim.failures \/ i \notin env.liveWorkers THEN {"timeout"} ELSE {})

ResumeFace ==
  /\ \E i \in StartIds, recorderOk \in Outcomes :
       /\ startPc[i] = "face"
       /\ \E o \in FaceOutcomes(i) :
            IF o # "initialized" \/ ctl.faceWorker = NULL
            THEN Catch(St, i)     \* rejected, or faceWorker.onmessage on null
            ELSE StartTail([St EXCEPT !.env.faceHandlers = @ \cup {ctl.faceWorker},
                                      !.ctl.faceLoopId = i],
                           i, recorderOk)
  /\ UNCHANGED <<startOpts, cnt, lim, probe>>

\* stop() is called from outside.
CallStop ==
  /\ cnt.stops < lim.stops
  /\ cnt' = [cnt EXCEPT !.stops = @ + 1]
  /\ LET s1 == DoStop(St, 0)
     IN Commit([s1 EXCEPT
                  !.gh.stopped = IF ctl.isRunning /\ NoStartInFlight THEN TRUE ELSE @,
                  !.gh.raced = IF NoStartInFlight THEN @ ELSE TRUE,
                  !.gh.restops = IF gh.stopped /\ stops = <<>> THEN @ + 1 ELSE @])
  /\ UNCHANGED <<startPc, startOpts, lim, probe>>

\* audioContext.close() settles for a suspended stop().
ResumeStop ==
  /\ \E k \in 1..Len(stops) :
       LET r == stops[k]
           s1 == [St EXCEPT
                    !.stops = SubSeq(stops, 1, k - 1) \o SubSeq(stops, k + 1, Len(stops)),
                    !.env.liveContexts = @ \ {r.ctx}]
       IN /\ Commit(StopTail(s1))
          /\ startPc' = IF r.caller = 0 THEN startPc
                        ELSE [startPc EXCEPT ![r.caller] = "rejected"]
  /\ UNCHANGED <<startOpts, cnt, lim, probe>>

\* ---------------------------------------------------------- publishMetrics
\* The pause_ratio field of the event publishMetrics builds.
EventPauseRatio(rmsHistory) == Undef

\* The head field of the event: the pose when a face frame carries a yaw.
HeadOfZero(f) == Some([yaw |-> OrZero(f.yaw), pitch |-> OrZero(f.pitch)])
HeadOf(f) ==
  IF IsDef(f.yaw) THEN Some([yaw |-> Val(f.yaw), pitch |-> OrZero(f.pitch)]) ELSE Undef

\* The wpm field of the event: `asrService.available ? currentWpm : undefined`.
EventWpmAlways(asrAvailable, currentWpm) == Some(currentWpm)
EventWpm(asrAvailable, currentWpm) == IF asrAvailable THEN Some(currentWpm) ELSE Undef

\* The MetricsEvent publishMetrics builds, from the state after the rolling
\* windows were updated.
BuildEvent(c, now, asrAvailable, currentWpm) ==
  LET a == c.latestAudioData
      f == c.latestFaceData
  IN [ t |-> now - c.startTime,
       wpm |-> EventWpm(asrAvailable, currentWpm),
       pitch_hz |-> IF IsDef(a.pitch) /\ Val(a.pitch) > 0 THEN a.pitch ELSE Undef,
       rms |-> a.rms,
       pause_ratio |-> EventPauseRatio(c.rmsHistory),
       fillers_per_min |-> calculateFillersPerMin(c.fillerCount, now, c.startTime),
       head |-> HeadOf(f),
       gaze_jitter |-> f.gazeJitter,
       smile |-> f.smile,
       blink_per_min |-> f.blinkPerMin,
       tone_score |-> calculateToneScore(c.pitchHistory, c.rmsHistory,
                                         c.wpmHistory, c.sentimentHistory),
       transcript_partial |-> c.transcriptInterim,
       transcript_final |-> c.transcriptFinal ]

\* metricsBus.publish(event): every listener currently registered on the bus
\* is invoked with the event, in registration order; an exception a listener
\* raises is logged and swallowed, so publish always returns normally.  A
\* listener keeps count of the events it was invoked with, by the controller
\* whose tick published them.
Invoke(listener, got, from) ==
  IF listener.active THEN [got EXCEPT ![from] = @ + 1] ELSE got
BusPublish(o, event, from) ==
  [o EXCEPT !.published = @ + 1,
            !.lastPublished = Some(event),
            !.received = [k \in 1..Len(o.listeners) |->
                            Invoke(o.listeners[k], o.received[k], from)]]

\* The windows the event is built from: the three pushes of the tick come
\* before `tone_score: calculateToneScore()`.
WindowsBeforePush(before, after) ==
  [after EXCEPT !.pitchHistory = before.pitchHistory,
                !.rmsHistory = before.rmsHistory,
                !.wpmHistory = before.wpmHistory]
WindowsAtBuild(before, after) == after

\* What getMetricsDump().metrics holds when a listener reads it while it is
\* invoked: `allMetrics.push(event)` comes before `metricsBus.publish(event)`.
HistoryAtPublishBeforePush(before, after) == before
HistoryAtPublish(before, after) == after
Observe(o, before, after) ==
  IF \E k \in 1..Len(o.listeners) : o.listeners[k].active
  THEN [o EXCEPT !.observed = HistoryAtPublish(before, after)]
  ELSE o

\* Whether metricsBus.publish lets an exception of a listener reach its
\* caller: never, the bus swallows it.
PublishThrows(listeners) == FALSE

\* window.dispatchEvent(new CustomEvent('creao:metrics', { detail: event })).
DispatchMetricsSkipped(o, event) == o
DispatchMetrics(o, event) ==
  [o EXCEPT !.dispatched = @ + 1, !.lastDispatched = Some(event)]

\* publishMetrics(): one tick.
publishMetrics(s, id) ==
  LET c == s.ctl
      now == s.env.now
      avail == s.env.asrAvailable
      words == IF avail THEN PruneWords(c.wordTimestamps, now) ELSE c.wordTimestamps
      currentWpm == IF avail THEN WpmOf(words) ELSE 0
      currentPitch == OrZero(c.latestAudioData.pitch)
      currentRms == OrZero(c.latestAudioData.rms)
      c1 == [c EXCEPT
               !.wordTimestamps = words,
               !.pitchHistory = PushBounded(@, currentPitch, TONE_HISTORY_SIZE),
               !.rmsHistory = PushBounded(@, currentRms, TONE_HISTORY_SIZE),
               !.wpmHistory = PushBounded(@, currentWpm, TONE_HISTORY_SIZE)]
      event == BuildEvent(WindowsAtBuild(c, c1), now, avail, currentWpm)
      c2 == [c1 EXCEPT !.allMetrics = PushBounded(@, event, MAX_METRICS_BUFFER)]
  IN [s EXCEPT
        !.ctl = c2,
        \* publish is called outside any try block: an exception leaving it
        \* would end the callback before the dispatch
        !.out = LET o1 == BusPublish(Observe(@, c1.allMetrics, c2.allMetrics),
                                     event, s.self)
                IN IF PublishThrows(s.out.listeners) THEN o1
                   ELSE DispatchMetrics(o1, event),
        !.gh.events = Append(@, event),
        !.gh.at = Append(@, now),
        !.gh.heard = Append(@, s.gh.audioSeen),
        !.gh.pitch = Append(@, currentPitch),
        !.gh.rms = Append(@, currentRms),
        !.gh.wpm = Append(@, currentWpm),
        !.gh.unread = FALSE]

\* An interval timer created by setInterval(publishMetrics, 1000 / metricsHz)
\* fires.
Tick ==
  /\ \E id \in env.timers \cap env.due \cap StartIds :
       Commit(publishMetrics([St EXCEPT !.env.due = @ \ {id}], id))
  /\ UNCHANGED <<startPc, startOpts, cnt, lim, probe>>

\* controller.onMetrics(cb) of either controller of the page:
\* `return metricsBus.subscribe(cb)`, the bus being the one the module
\* imports.  The listener registered may be one that throws.
Subscribe(o, owner, throws) ==
  [o EXCEPT !.listeners = Append(@, [owner |-> owner, throws |-> throws,
                                     active |-> TRUE]),
            !.received = Append(@, [A |-> 0, B |-> 0])]
OnMetrics ==
  /\ Len(out.listeners) < MaxListeners
  /\ \E owner \in {"A", "B"}, throws \in BOOLEAN :
       out' = Subscribe(out, owner, throws)
  /\ UNCHANGED <<ctl, env, startPc, startOpts, stops, gh, cnt, lim, probe>>

\* The function onMetrics returned is called: the listener is removed; a
\* second call changes nothing.
Unsubscribed == {k \in 1..Len(out.listeners) : ~out.listeners[k].active}
Unsubscribe ==
  /\ Cardinality(Unsubscribed) < MaxUnsubscribes
  /\ \E k \in 1..Len(out.listeners) :
       out' = [out EXCEPT !.listeners[k].active = FALSE]
  /\ UNCHANGED <<ctl, env, startPc, startOpts, stops, gh, cnt, lim, probe>>

\* A second controller made by createAnalyticsController on the same page is
\* started with neither a video element nor speech recognition; its awaits
\* settle before anything else runs, so its start() is one step here.
PeerId == MaxStarts + 1
PeerStart ==
  /\ ~env.peer.isRunning
  /\ env.peer.startTime = 0
  /\ LET c == [ResetState(env.peer) EXCEPT
                 !.stream = PeerId, !.audioContext = PeerId,
                 !.audioWorkletNode = PeerId, !.mediaRecorder = PeerId,
                 !.metricsIntervalId = PeerId,
                 !.isRunning = TRUE, !.startTime = env.now]
     IN Commit(Dispatch([St EXCEPT !.env.peer = c,
                                   !.env.timers = @ \cup {PeerId}],
                        "creao:started"))
  /\ UNCHANGED <<startPc, startOpts, cnt, lim, probe>>

\* The second controller's interval timer fires: its publishMetrics runs on
\* its own closure state and on the bus and window of the page.
PeerTick ==
  /\ PeerId \in env.timers \cap env.due
  /\ LET s1 == [St EXCEPT !.ctl = env.peer, !.self = "B",
                          !.env.due = @ \ {PeerId}]
         s2 == publishMetrics(s1, PeerId)
     IN /\ env' = [s2.env EXCEPT !.peer = s2.ctl]
        /\ out' = s2.out
  /\ UNCHANGED <<ctl, startPc, startOpts, stops, gh, cnt, lim, probe>>

\* The clock advances by one tick period: every active timer becomes due.
Advance ==
  /\ cnt.advances < lim.advances
  /\ lim.skip \/ env.due = {}
  /\ cnt' = [cnt EXCEPT !.advances = @ + 1]
  /\ env' = [env EXCEPT !.now = @ + TICK_MS, !.due = env.timers]
  /\ UNCHANGED <<ctl, startPc, startOpts, stops, out, gh, lim, probe>>

\* The clock advances by a whole WPM window without a tick in between (the
\* page is throttled or the event loop is busy); the interval timers fire
\* once afterwards.
Stall ==
  /\ cnt.advances < lim.advances
  /\ env.due = {}
  /\ cnt' = [cnt EXCEPT !.advances = @ + 1]
  /\ env' = [env EXCEPT !.now = @ + WPM_WINDOW_SEC * 1000, !.due = env.timers]
  /\ UNCHANGED <<ctl, startPc, startOpts, stops, out, gh, lim, probe>>

\* -------------------------------------------------------------- ingestion
\* audioWorkletNode.port.onmessage: a worklet node on an open context posts
\* an analysis frame.
onAudioMessageFirstOnly(c, frame) ==
  IF c.latestAudioData = EmptyAudio THEN [c EXCEPT !.latestAudioData = frame] ELSE c
onAudioMessage(c, frame) == [c EXCEPT !.latestAudioData = frame]

AudioMessage ==
  /\ cnt.ingest < lim.ingest
  /\ env.audioPorts \cap env.liveContexts # {}
  /\ \E frame \in lim.audioFrames :
       /\ ctl' = onAudioMessage(ctl, frame)
       /\ gh' = [gh EXCEPT !.audioSeen = TRUE, !.lastAudio = frame,
                           !.unread = TRUE,
                           !.superseded = IF gh.unread THEN TRUE ELSE @,
                           !.lateFrames = IF gh.stopped THEN @ + 1 ELSE @]
  /\ cnt' = [cnt EXCEPT !.ingest = @ + 1]
  /\ UNCHANGED <<env, startPc, startOpts, stops, out, lim, probe>>

\* faceWorker.onmessage (the analysis handler): a live worker answers a frame
\* the capture loop posted while the session was running.
onFaceMessageRecording(c, frame) ==
  [c EXCEPT !.latestFaceData = frame, !.allMetrics = Append(@, frame)]
onFaceMessage(c, frame) == [c EXCEPT !.latestFaceData = frame]

FaceMessage ==
  /\ cnt.ingest < lim.ingest
  /\ ctl.isRunning
  /\ env.faceHandlers \cap env.liveWorkers # {}
  /\ \E frame \in lim.faceFrames :
       /\ ctl' = onFaceMessage(ctl, frame)
       /\ gh' = [gh EXCEPT !.faceSeen = TRUE, !.lastFace = frame]
  /\ cnt' = [cnt EXCEPT !.ingest = @ + 1]
  /\ UNCHANGED <<env, startPc, startOpts, stops, out, lim, probe>>

\* setupASR onInterim
AsrInterim ==
  /\ cnt.ingest < lim.ingest
  /\ env.asrActive
  /\ \E text \in lim.interimTexts :
       ctl' = [ctl EXCEPT !.transcriptInterim = text]
  /\ cnt' = [cnt EXCEPT !.ingest = @ + 1]
  /\ UNCHANGED <<env, startPc, startOpts, stops, out, gh, lim, probe>>

\* setupASR onFinal
\* transcriptFinal += (transcriptFinal ? ' ' : '') + text
AppendFinalNoSpace(transcriptFinal, text) == transcriptFinal \o text
AppendFinal(transcriptFinal, text) ==
  IF transcriptFinal # <<>> THEN transcriptFinal \o <<" ">> \o text ELSE text

onFinal(c, text, now) ==
  LET words == SplitWs(Trim(text))
      stamped == [k \in 1..Len(words) |-> [word |-> words[k], t |-> now]]
      c1 == [c EXCEPT
               !.transcriptFinal = AppendFinal(@, text),
               !.transcriptInterim = <<>>,
               !.wordTimestamps = @ \o stamped,
               !.fillerCount = @ + CountFillers(text)]
  IN IF Len(Trim(text)) > 0
     THEN [c1 EXCEPT !.sentimentHistory =
             PushBounded(@, NormalizeSentiment(SentimentScore(text)), TONE_HISTORY_SIZE)]
     ELSE c1

AsrFinal ==
  /\ cnt.ingest < lim.ingest
  /\ env.asrActive
  /\ lim.phased => env.now = ctl.startTime
  /\ \E text \in lim.texts \cup (IF cnt.alt < lim.alt THEN lim.altTexts ELSE {}) :
       \* cnt.alt counts the session's first final transcripts, up to lim.alt
       /\ ctl' = onFinal(ctl, text, env.now)
       /\ gh' = [gh EXCEPT
                   !.sent = IF Len(Trim(text)) > 0
                            THEN Append(@, NormalizeSentiment(SentimentScore(text)))
                            ELSE @]
       /\ cnt' = [cnt EXCEPT !.ingest = @ + 1,
                             !.alt = IF @ < lim.alt THEN @ + 1 ELSE @]
  /\ UNCHANGED <<env, startPc, startOpts, stops, out, lim, probe>>

\* ------------------------------------------------------- getMetricsSummary
\* speech.total_filler_count: the tracked counter.
TotalFillerCountFromHistory(c) ==
  IF c.allMetrics = <<>> THEN 0
  ELSE CountFillers(c.allMetrics[Len(c.allMetrics)].transcript_final)
TotalFillerCount(c) == c.fillerCount

\* transcriptFinal.split(/\s+/).filter(w => w.length > 0).length
WordCount(text) == Len(SelectSeq(SplitWs(text), LAMBDA w : Len(w) > 0))

\* floor(200 * sqrt(x)), from r = floor(sqrt(x)) and the largest e below 200
\* with (200 r + e)^2 <= 40000 x.
Sqrt200(x) ==
  LET r == ISqrt(x)
      fits == {e \in 0..199 : 400 * r * e + e * e <= 40000 * (x - r * r)}
  IN 200 * r + CHOOSE e \in fits : \A d \in fits : d <= e

\* calculateStats: null (undefined) for no values; otherwise the mean and the
\* population standard deviation rounded to hundredths (Math.round(x * 100) /
\* 100, kept as the integer number of hundredths), and the median, min and max
\* taken from the sorted values.  scale is the number of model units per 1.0.
MedianIndex(n) == (n \div 2) + 1
calculateStats(values, scale) ==
  IF Len(values) = 0 THEN Undef
  ELSE LET n == Len(values)
           sorted == SortSeq(values, LAMBDA a, b : a < b)
           S == SumSeq(values)
           X == n * SumSq(values) - S * S
       IN Some([ mean |-> RoundDiv(100 * S, n * scale),
                 median |-> sorted[MedianIndex(n)],
                 min |-> sorted[1],
                 max |-> sorted[n],
                 stdDev |-> ((Sqrt200(X) \div (n * scale)) + 1) \div 2 ])

\* allMetrics.map(m => m.field).filter(v => v !== undefined)
DefinedValuesOrZero(opts) == [k \in 1..Len(opts) |-> OrZero(opts[k])]
DefinedValues(opts) ==
  LET d == SelectSeq(opts, IsDef) IN [k \in 1..Len(d) |-> Val(d[k])]
Field(events, f) == [k \in 1..Len(events) |-> events[k][f]]
\* pause_ratio * 100 and fillers_per_min, to whole units.
PausePct(events) ==
  [k \in 1..Len(events) |->
     IF events[k].pause_ratio = Undef THEN Undef
     ELSE Some((Val(events[k].pause_ratio).num * 100) \div Val(events[k].pause_ratio).den)]
FillersWhole(events) ==
  [k \in 1..Len(events) |->
     Some(events[k].fillers_per_min.num \div events[k].fillers_per_min.den)]

\* getMetricsDump (the ISO timestamps of the session are left out).
getMetricsDump(c, now) ==
  [ durationMs |-> (IF c.endTime # 0 THEN c.endTime ELSE now) - c.startTime,
    metrics |-> c.allMetrics ]

\* What the metrics array of a dump returned earlier holds now: the dump's
\* `metrics: allMetrics` is the controller's own array, not a copy, and that
\* array is pushed to, shifted and cleared in place.
HeldMetrics(c, dump) == c.allMetrics

\* controller.getMetricsDump() is called on a stopped session, once; probe
\* keeps what it returned.
GetDumpAfterStop ==
  /\ ~ctl.isRunning
  /\ ctl.endTime # 0
  /\ Awaited
  /\ probe.fn # "getMetricsDump"
  /\ probe' = [fn |-> "getMetricsDump", arg |-> <<>>,
               res |-> getMetricsDump(ctl, env.now)]
  /\ UNCHANGED <<ctl, env, startPc, startOpts, stops, out, gh, cnt, lim>>

\* getMetricsSummary (the ISO timestamps of the session are left out).
getMetricsSummary(c, now) ==
  LET end == IF c.endTime # 0 THEN c.endTime ELSE now
      m == c.allMetrics
  IN [ session |-> [ durationSeconds |-> RoundDiv(end - c.startTime, 1000),
                     totalDataPoints |-> Len(c.allMetrics) ],
       speech |-> [ wpm |-> calculateStats(DefinedValues(Field(m, "wpm")), 1),
                    pitch_hz |-> calculateStats(DefinedValues(Field(m, "pitch_hz")), 1),
                    pause_ratio_pct |-> calculateStats(DefinedValues(PausePct(m)), 1),
                    fillers_per_min |-> calculateStats(DefinedValues(FillersWhole(m)), 1),
                    total_filler_count |-> TotalFillerCount(c) ],
       face |-> [ blink_per_min |-> calculateStats(DefinedValues(Field(m, "blink_per_min")), 1),
                  gaze_stability |-> calculateStats(DefinedValues(Field(m, "gaze_jitter")), 1) ],
       tone |-> calculateStats(DefinedValues(Field(m, "tone_score")), 1000),
       transcript |-> [ full_text |-> c.transcriptFinal,
                        word_count |-> WordCount(c.transcriptFinal) ] ]

\* controller.getMetricsSummary() is called; probe keeps what it returned.
GetSummary ==
  /\ probe' = [fn |-> "getMetricsSummary", arg |-> <<>>,
               res |-> getMetricsSummary(ctl, env.now)]
  /\ UNCHANGED <<ctl, env, startPc, startOpts, stops, out, gh, cnt, lim>>

\* ---------------------------------------------------------- specifications
Lifecycle ==
  \/ CallStart
  \/ ResumeGum
  \/ ResumePlay
  \/ ResumeWorklet
  \/ ResumeFace
  \/ CallStop
  \/ ResumeStop

\* Start and stop calls in every interleaving with the ticks of short sessions.
RaceLim ==
  [ starts |-> MaxStarts, stops |-> MaxStops, advances |-> MaxAdvances,
    ingest |-> 0, alt |-> 0,
    videoOpts |-> {TRUE}, asrOpts |-> {TRUE}, asrAvail |-> {TRUE},
    failures |-> FALSE, skip |-> FALSE, phased |-> FALSE,
    audioFrames |-> {}, faceFrames |-> {}, interimTexts |-> {},
    texts |-> {}, altTexts |-> {} ]

Next ==
  \/ Lifecycle
  \/ Advance
  \/ Tick

Init == InitWith(RaceLim)
Spec == Init /\ [][Next]_vars

\* One session at a time, with every interleaving of ticks, feature frames
\* and transcript events, and repeated stop calls.
SessionLim ==
  [ starts |-> 1, stops |-> MaxStops, advances |-> MaxTicks,
    ingest |-> MaxIngest, alt |-> 0,
    videoOpts |-> {TRUE}, asrOpts |-> {TRUE}, asrAvail |-> {TRUE, FALSE},
    failures |-> FALSE, skip |-> FALSE, phased |-> FALSE,
    audioFrames |-> AudioFrames, faceFrames |-> FaceFrames,
    interimTexts |-> InterimTexts, texts |-> FinalTexts, altTexts |-> {} ]

NextSession ==
  \/ Lifecycle
  \/ Advance
  \/ Tick
  \/ AudioMessage
  \/ FaceMessage
  \/ AsrInterim
  \/ AsrFinal

InitSession == InitWith(SessionLim)
SpecSession == InitSession /\ [][NextSession]_vars

\* One long session, long enough for the rolling windows and the history to
\* reach their capacity: either ticks with a few audio frames and final
\* transcripts arriving among them, or a burst of final transcripts (of which
\* the first few may differ from the rest) followed by ticks.
LongTicksLim ==
  [ starts |-> 1, stops |-> 0, advances |-> LongTicks,
    ingest |-> LongIngest, alt |-> 0,
    videoOpts |-> {TRUE}, asrOpts |-> {TRUE}, asrAvail |-> {TRUE},
    failures |-> FALSE, skip |-> FALSE, phased |-> TRUE,
    audioFrames |-> AudioFrames, faceFrames |-> {}, interimTexts |-> {},
    texts |-> { <<"u", "m">> }, altTexts |-> {} ]

LongFinalsLim ==
  [ starts |-> 1, stops |-> 0, advances |-> LongTicks,
    ingest |-> LongFinals, alt |-> LongAlt,
    videoOpts |-> {TRUE}, asrOpts |-> {TRUE}, asrAvail |-> {TRUE},
    failures |-> FALSE, skip |-> FALSE, phased |-> TRUE,
    audioFrames |-> {}, faceFrames |-> {}, interimTexts |-> {},
    texts |-> { <<"u", "m">> }, altTexts |-> { <<"g", "o", "o", "d", " ", "u", "h">> } ]

NextLong ==
  \/ CallStart
  \/ ResumeGum
  \/ ResumePlay
  \/ ResumeWorklet
  \/ ResumeFace
  \/ Advance
  \/ Tick
  \/ AudioMessage
  \/ AsrFinal

InitLong == \E l \in {LongTicksLim, LongFinalsLim} : InitWith(l)
SpecLong == InitLong /\ [][NextLong]_vars

\* One session started with or without speech recognition, on a service that
\* is or is not available, with final transcripts arriving among the ticks
\* and the clock stalling for a whole WPM window.
AsrLim ==
  [ starts |-> 1, stops |-> 0, advances |-> MaxTicks,
    ingest |-> MaxIngest, alt |-> 0,
    videoOpts |-> {FALSE}, asrOpts |-> {TRUE, FALSE}, asrAvail |-> {TRUE, FALSE},
    failures |-> FALSE, skip |-> FALSE, phased |-> FALSE,
    audioFrames |-> {}, faceFrames |-> {}, interimTexts |-> {},
    texts |-> { <<"u", "m">>, <<"g", "o", "o", "d", " ", "u", "h">> }, altTexts |-> {} ]

NextAsr ==
  \/ CallStart
  \/ ResumeGum
  \/ ResumeWorklet
  \/ Advance
  \/ Stall
  \/ Tick
  \/ AsrFinal

InitAsr == InitWith(AsrLim)
SpecAsr == InitAsr /\ [][NextAsr]_vars

\* Overlapping start() calls with final transcripts arriving among the ticks:
\* a tick of the first call's timer can fall in the millisecond in which the
\* second call sets startTime.
OverlapLim ==
  [ starts |-> MaxStarts, stops |-> 0, advances |-> MaxAdvances,
    ingest |-> LongIngest, alt |-> 0,
    videoOpts |-> {FALSE}, asrOpts |-> {TRUE}, asrAvail |-> {TRUE},
    failures |-> FALSE, skip |-> FALSE, phased |-> FALSE,
    audioFrames |-> {}, faceFrames |-> {}, interimTexts |-> {},
    texts |-> { <<"u", "m">> }, altTexts |-> {} ]

NextOverlap ==
  \/ CallStart
  \/ ResumeGum
  \/ ResumeWorklet
  \/ Advance
  \/ Tick
  \/ AsrFinal

InitOverlap == InitWith(OverlapLim)
SpecOverlap == InitOverlap /\ [][NextOverlap]_vars

\* One long session, long enough for the history to evict events, with final
\* transcripts arriving before its first tick, whose summary is read at any
\* time.
SummaryLim ==
  [ starts |-> 1, stops |-> 0, advances |-> LongTicks,
    ingest |-> MaxIngest, alt |-> 0,
    videoOpts |-> {FALSE}, asrOpts |-> {TRUE}, asrAvail |-> {TRUE},
    failures |-> FALSE, skip |-> FALSE, phased |-> TRUE,
    audioFrames |-> {}, faceFrames |-> {}, interimTexts |-> {},
    texts |-> { <<"u", "m">>, <<"g", "o", "o", "d">> }, altTexts |-> {} ]

NextSummary ==
  \/ CallStart
  \/ ResumeGum
  \/ ResumeWorklet
  \/ Advance
  \/ Tick
  \/ AsrFinal
  \/ GetSummary

InitSummary == InitWith(SummaryLim)
SpecSummary == InitSummary /\ [][NextSummary]_vars

\* One short session with audio and face frames arriving among its ticks,
\* whose summary is read at any time.
DigestLim ==
  [ starts |-> 1, stops |-> 0, advances |-> MaxTicks,
    ingest |-> MaxIngest, alt |-> 0,
    videoOpts |-> {TRUE}, asrOpts |-> {TRUE}, asrAvail |-> {TRUE, FALSE},
    failures |-> FALSE, skip |-> FALSE, phased |-> FALSE,
    audioFrames |-> AudioFrames, faceFrames |-> FaceFrames, interimTexts |-> {},
    texts |-> { <<"u", "m">> }, altTexts |-> {} ]

NextDigest ==
  \/ CallStart
  \/ ResumeGum
  \/ ResumePlay
  \/ ResumeWorklet
  \/ ResumeFace
  \/ Advance
  \/ Tick
  \/ AudioMessage
  \/ FaceMessage
  \/ AsrFinal
  \/ GetSummary

InitDigest == InitWith(DigestLim)
SpecDigest == InitDigest /\ [][NextDigest]_vars

\* Sessions run one after another on one controller: the caller awaits each
\* start() and stop() before it makes the next call.
SequentialLim ==
  [ starts |-> MaxStarts, stops |-> 1, advances |-> MaxTicks,
    ingest |-> MaxIngest, alt |-> 0,
    videoOpts |-> {TRUE}, asrOpts |-> {TRUE}, asrAvail |-> {TRUE},
    failures |-> FALSE, skip |-> FALSE, phased |-> FALSE,
    audioFrames |-> { [pitch |-> Some(200), rms |-> Some(50)],
                      [pitch |-> Some(220), rms |-> Some(20)] },
    faceFrames |-> { [yaw |-> Some(5), pitch |-> Some(3), blinkPerMin |-> Some(20),
                      smile |-> Some(500), gazeJitter |-> Some(15)] },
    interimTexts |-> InterimTexts, texts |-> { <<"u", "m">> }, altTexts |-> {} ]

AwaitedStart == Awaited /\ CallStart
AwaitedStop == Awaited /\ CallStop

NextSequential ==
  \/ AwaitedStart
  \/ ResumeGum
  \/ ResumePlay
  \/ ResumeWorklet
  \/ ResumeFace
  \/ AwaitedStop
  \/ ResumeStop
  \/ Advance
  \/ Tick
  \/ AudioMessage
  \/ FaceMessage
  \/ AsrInterim
  \/ AsrFinal

InitSequential == InitWith(SequentialLim)
SpecSequential == InitSequential /\ [][NextSequential]_vars

\* The same sessions, with the history of the stopped session read between
\* them.
NextDump ==
  \/ NextSequential
  \/ GetDumpAfterStop

InitDump == InitWith(SequentialLim)
SpecDump == InitDump /\ [][NextDump]_vars

\* Sessions whose start() can fail at any of its initialization steps, with
\* stop() calls from outside.
FailureLim ==
  [ starts |-> 1, stops |-> MaxStops, advances |-> MaxAdvances,
    ingest |-> LongIngest, alt |-> 0,
    videoOpts |-> {TRUE, FALSE}, asrOpts |-> {TRUE, FALSE}, asrAvail |-> {TRUE},
    failures |-> TRUE, skip |-> FALSE, phased |-> FALSE,
    audioFrames |-> { [pitch |-> Some(200), rms |-> Some(50)] },
    faceFrames |-> {}, interimTexts |-> {},
    texts |-> { <<"u", "m">> }, altTexts |-> {} ]

NextFailure ==
  \/ Lifecycle
  \/ Advance
  \/ Tick
  \/ AudioMessage
  \/ AsrFinal

InitFailure == InitWith(FailureLim)
SpecFailure == InitFailure /\ [][NextFailure]_vars

\* Two controllers on one page, with listeners registered through either.
BusLim ==
  [ starts |-> 1, stops |-> 0, advances |-> MaxAdvances,
    ingest |-> 0, alt |-> 0,
    videoOpts |-> {FALSE}, asrOpts |-> {FALSE}, asrAvail |-> {TRUE},
    failures |-> FALSE, skip |-> FALSE, phased |-> FALSE,
    audioFrames |-> {}, faceFrames |-> {}, interimTexts |-> {},
    texts |-> {}, altTexts |-> {} ]

NextBus ==
  \/ CallStart
  \/ ResumeGum
  \/ ResumeWorklet
  \/ Advance
  \/ Tick
  \/ OnMetrics
  \/ Unsubscribe
  \/ PeerStart
  \/ PeerTick

InitBus == InitWith(BusLim)
SpecBus == InitBus /\ [][NextBus]_vars

\* calculateStats applied on its own to the defined values of a metric.
StatSamples == {1, 2, 4, 7}
StatInputs == UNION { [1..n -> StatSamples] : n \in 0..MaxWin }

ApplyStats ==
  /\ probe.fn = "input"
  /\ probe' = [fn |-> "calculateStats", arg |-> probe.arg,
               res |-> calculateStats(probe.arg, 1)]
  /\ UNCHANGED <<ctl, env, startPc, startOpts, stops, out, gh, cnt, lim>>

NextStats ==
  \/ ApplyStats

InitStats ==
  /\ lim = RaceLim
  /\ ctl = InitCtl
  /\ env = InitEnv(TRUE)
  /\ startPc = [i \in StartIds |-> "idle"]
  /\ startOpts = [i \in StartIds |-> [videoEl |-> TRUE, useASR |-> TRUE]]
  /\ stops = <<>>
  /\ out = InitOut
  /\ gh = InitGh
  /\ cnt = InitCnt
  /\ \E v \in StatInputs : probe = [fn |-> "input", arg |-> v, res |-> Undef]
SpecStats == InitStats /\ [][NextStats]_vars

\* The onFinal handler applied on its own to a chunk of text, on a word
\* timeline that is empty or already holds a word.
TextChars == {"a", "b", " "}
Chunks == UNION { [1..n -> TextChars] : n \in 0..MaxText }
Timelines == { <<>>, <<[word |-> <<"a">>, t |-> 1000]>> }

ApplyFinal ==
  /\ probe.fn = "input"
  /\ ctl' = onFinal(ctl, probe.arg, env.now)
  /\ probe' = [fn |-> "onFinal", arg |-> probe.arg, res |-> Undef]
  /\ UNCHANGED <<env, startPc, startOpts, stops, out, gh, cnt, lim>>

NextFinal ==
  \/ ApplyFinal

InitFinal ==
  /\ lim = RaceLim
  /\ \E w \in Timelines : ctl = [InitCtl EXCEPT !.wordTimestamps = w]
  /\ env = InitEnv(TRUE)
  /\ startPc = [i \in StartIds |-> "idle"]
  /\ startOpts = [i \in StartIds |-> [videoEl |-> TRUE, useASR |-> TRUE]]
  /\ stops = <<>>
  /\ out = InitOut
  /\ gh = InitGh
  /\ cnt = InitCnt
  /\ \E v \in Chunks : probe = [fn |-> "input", arg |-> v, res |-> Undef]
SpecFinal == InitFinal /\ [][NextFinal]_vars

\* A pure function applied on its own to every input of a bounded set.
RmsSamples == {0, 19, 20, 50}
Windows == UNION { [1..n -> RmsSamples] : n \in 0..MaxWin }

ApplyPauseRatio ==
  /\ probe.fn = "input"
  /\ probe' = [fn |-> "calculatePauseRatio", arg |-> probe.arg,
               res |-> calculatePauseRatio(probe.arg)]
  /\ UNCHANGED <<ctl, env, startPc, startOpts, stops, out, gh, cnt, lim>>

NextPure ==
  \/ ApplyPauseRatio

InitPure ==
  /\ lim = RaceLim
  /\ ctl = InitCtl
  /\ env = InitEnv(TRUE)
  /\ startPc = [i \in StartIds |-> "idle"]
  /\ startOpts = [i \in StartIds |-> [videoEl |-> TRUE, useASR |-> TRUE]]
  /\ stops = <<>>
  /\ out = InitOut
  /\ gh = InitGh
  /\ cnt = InitCnt
  /\ \E w \in Windows : probe = [fn |-> "input", arg |-> w, res |-> [num |-> 0, den |-> 1]]
SpecPure == InitPure /\ [][NextPure]_vars

\* calculateToneScore applied on its own to window contents a session can
\* hold: the pitch, loudness and pace windows have one sample per tick and so
\* the same length; the sentiment window has one sample per final transcript.
Rep(v, n) == [k \in 1..n |-> v]
PitchSamples == {100, 110, 140}
PitchWindows ==
  { Rep(0, z) \o Rep(100, m) \o Rep(b, len - z - m) :
      <<len, z, m, b>> \in
        { q \in (ToneWin - 1 .. ToneWin) \X (0..ToneWin) \X (0..ToneWin) \X PitchSamples :
            q[2] + q[3] <= q[1] } }
LoudnessSamples == {0, 500}
PaceSamples == {0, 136, 300}
SentimentWindows == { <<>>, <<1000>>, <<-1000>>, <<1000, 0>> }
ToneInputs ==
  { [pitch |-> p, rms |-> Rep(r, Len(p)), wpm |-> Rep(w, Len(p)), sent |-> sw] :
      p \in PitchWindows, r \in LoudnessSamples, w \in PaceSamples,
      sw \in SentimentWindows }

ApplyToneScore ==
  /\ probe.fn = "input"
  /\ probe' = [fn |-> "calculateToneScore", arg |-> probe.arg,
               res |-> calculateToneScore(probe.arg.pitch, probe.arg.rms,
                                          probe.arg.wpm, probe.arg.sent)]
  /\ UNCHANGED <<ctl, env, startPc, startOpts, stops, out, gh, cnt, lim>>

NextTone ==
  \/ ApplyToneScore

InitTone ==
  /\ lim = RaceLim
  /\ ctl = InitCtl
  /\ env = InitEnv(TRUE)
  /\ startPc = [i \in StartIds |-> "idle"]
  /\ startOpts = [i \in StartIds |-> [videoEl |-> TRUE, useASR |-> TRUE]]
  /\ stops = <<>>
  /\ out = InitOut
  /\ gh = InitGh
  /\ cnt = InitCnt
  /\ \E a \in ToneInputs : probe = [fn |-> "input", arg |-> a, res |-> Undef]
SpecTone == InitTone /\ [][NextTone]_vars

\* ------------------------------------------------------------- properties
AllSettled == NoStartInFlight /\ stops = <<>>
\* The wall-clock times of the ticks whose events are in the history.
HistoryAt == LastN(gh.at, Len(ctl.allMetrics))
HistoryHeard == LastN(gh.heard, Len(ctl.allMetrics))

\* C1: once stop() has been called on a running session (and until start() is
\* called again) no tick happens: nothing is appended to the history,
\* published to the bus or dispatched as creao:metrics.
C1_NoTickAfterStop ==
  [][ (gh.stopped /\ gh.stopped') =>
        /\ ctl'.allMetrics = ctl.allMetrics
        /\ out'.published = out.published
        /\ out'.dispatched = out.dispatched ]_vars

\* C2: a stop() call made after an earlier stop() of the session has completed
\* changes nothing: no tick, no lifecycle event, and the end time, history,
\* transcript and filler count stay as the first stop left them.
C2_StopIdempotent ==
  [][ (cnt'.stops = cnt.stops + 1 /\ gh.stopped /\ stops = <<>>) =>
        /\ ctl'.endTime = ctl.endTime
        /\ ctl'.allMetrics = ctl.allMetrics
        /\ ctl'.transcriptFinal = ctl.transcriptFinal
        /\ ctl'.transcriptInterim = ctl.transcriptInterim
        /\ ctl'.fillerCount = ctl.fillerCount
        /\ ctl'.isRunning = ctl.isRunning
        /\ out' = out
        /\ env' = env
        /\ stops' = stops ]_vars

C2_Witness ==
  /\ gh.restops > 0
  /\ ctl.allMetrics # <<>>
  /\ ctl.fillerCount > 0
  /\ ctl.endTime < env.now

\* C3: every t in the history is non-negative, and t strictly increases from
\* one event to the next whenever the clock advanced by at least one tick
\* period between the two ticks.
C3_TMonotonic ==
  \A k \in 1..Len(ctl.allMetrics) :
    /\ ctl.allMetrics[k].t >= 0
    /\ (k < Len(ctl.allMetrics) /\ HistoryAt[k + 1] >= HistoryAt[k] + TICK_MS)
         => ctl.allMetrics[k + 1].t > ctl.allMetrics[k].t

\* C4: each rolling window holds at most TONE_HISTORY_SIZE samples and is
\* exactly the most recent samples pushed since the session's reset, in
\* insertion order.
C4_WindowsBounded ==
  /\ Len(ctl.pitchHistory) <= TONE_HISTORY_SIZE
  /\ Len(ctl.rmsHistory) <= TONE_HISTORY_SIZE
  /\ Len(ctl.wpmHistory) <= TONE_HISTORY_SIZE
  /\ Len(ctl.sentimentHistory) <= TONE_HISTORY_SIZE
  /\ ctl.pitchHistory = LastN(gh.pitch, TONE_HISTORY_SIZE)
  /\ ctl.rmsHistory = LastN(gh.rms, TONE_HISTORY_SIZE)
  /\ ctl.wpmHistory = LastN(gh.wpm, TONE_HISTORY_SIZE)
  /\ ctl.sentimentHistory = LastN(gh.sent, TONE_HISTORY_SIZE)

\* Both the sentiment window and the per-tick windows have evicted a sample,
\* and the evicted sentiment sample differs from the ones kept.
C4_Witness ==
  /\ Len(gh.sent) > TONE_HISTORY_SIZE
  /\ Len(gh.rms) > TONE_HISTORY_SIZE
  /\ gh.sent[1] # ctl.sentimentHistory[1]

\* C5: after k ticks of a session the history holds exactly the most recent
\* min(k, MAX_METRICS_BUFFER) events in tick order.
C5_HistoryBounded ==
  /\ Len(ctl.allMetrics) = Min2(Len(gh.events), MAX_METRICS_BUFFER)
  /\ ctl.allMetrics = LastN(gh.events, MAX_METRICS_BUFFER)

C5_Witness ==
  /\ Len(gh.events) > MAX_METRICS_BUFFER
  /\ ctl.allMetrics[1] # gh.events[1]

\* C6: if stop() was called while a start() was awaiting initialization, then
\* once every call has settled the session is not running, no tick timer is
\* active and the media stream, face worker and audio context are released.
C6_StopHaltsRacingStart ==
  (gh.raced /\ AllSettled) =>
    /\ ~ctl.isRunning
    /\ env.timers = {}
    /\ env.liveStreams = {}
    /\ env.liveWorkers = {}
    /\ env.liveContexts = {}

\* C7: at most one tick timer is active at any time, and after stop() has
\* been called on the running session no timer is left.
C7_SingleTimer ==
  /\ Cardinality(env.timers) <= 1
  /\ gh.stopped => env.timers = {}

\* C8: while no face frame has been received in the session, every event has
\* head, gaze_jitter, smile and blink_per_min undefined and carries t,
\* fillers_per_min, the transcripts, wpm (ASR available) and, once an audio
\* frame has arrived, rms.
C8_NoFaceFields ==
  ~gh.faceSeen =>
    \A k \in 1..Len(ctl.allMetrics) :
      LET e == ctl.allMetrics[k] IN
      /\ e.head = Undef
      /\ e.gaze_jitter = Undef
      /\ e.smile = Undef
      /\ e.blink_per_min = Undef
      /\ e.t \in Int
      /\ e.fillers_per_min.den > 0
      /\ e.fillers_per_min.num >= 0
      /\ env.asrAvailable => IsDef(e.wpm)
      /\ HistoryHeard[k] => IsDef(e.rms)

C8_Witness ==
  /\ ~gh.faceSeen
  /\ Len(ctl.allMetrics) >= 2
  /\ ~HistoryHeard[1]
  /\ HistoryHeard[2]
  /\ ctl.allMetrics[2].transcript_final # <<>>

\* C9: every event carries a defined pause_ratio, equal to the fraction of
\* the rolling loudness window (this tick's sample included) below twice the
\* noise floor.
C9_PauseRatioInEvent ==
  \A k \in 1..Len(ctl.allMetrics) :
    /\ IsDef(ctl.allMetrics[k].pause_ratio)
    /\ k = Len(ctl.allMetrics) =>
         Val(ctl.allMetrics[k].pause_ratio) = calculatePauseRatio(ctl.rmsHistory)

\* C10: calculatePauseRatio is in [0,1]: 0 for an empty window, 1 when every
\* sample is below 2 * RMS_NOISE_FLOOR, 0 when every sample is at or above
\* it, and the number of samples below it over the window length otherwise.
BelowCount(w) == Cardinality({k \in 1..Len(w) : w[k] < 2 * RMS_NOISE_FLOOR})
C10_PauseRatio ==
  probe.fn = "calculatePauseRatio" =>
    LET w == probe.arg
        r == probe.res
    IN /\ r.den > 0
       /\ 0 <= r.num
       /\ r.num <= r.den
       /\ w = <<>> => r.num = 0
       /\ (w # <<>> /\ BelowCount(w) = Len(w)) => r.num = r.den
       /\ BelowCount(w) = 0 => r.num = 0
       /\ w # <<>> => r.num * Len(w) = BelowCount(w) * r.den

C10_Witness ==
  /\ probe.fn = "calculatePauseRatio"
  /\ Len(probe.arg) = MaxWin
  /\ \E k \in 1..MaxWin : probe.arg[k] = 2 * RMS_NOISE_FLOOR
  /\ 0 < probe.res.num
  /\ probe.res.num < probe.res.den

\* C11: whatever the pitch, pace and sentiment windows hold, the tone score
\* is undefined or a number in [-1, 1] (thousandths: [-1000, 1000]).
C11_ToneInRange ==
  probe.fn = "calculateToneScore" =>
    \/ probe.res = Undef
    \/ /\ Len(probe.res) = 1
       /\ Val(probe.res) >= -1000
       /\ Val(probe.res) <= 1000

\* A full window of fast speech with positive sentiment: the score is clamped
\* at the upper end.
C11_Witness ==
  /\ probe.fn = "calculateToneScore"
  /\ IsDef(probe.res)
  /\ Val(probe.res) = 1000
  /\ probe.arg.wpm[1] = 300
  /\ Len(probe.arg.sent) = 2

\* C12: the tone score of a tick is undefined exactly when, after the tick's
\* samples were pushed, the pitch or loudness window has fewer than 10 samples
\* or fewer than 5 of the pitch samples are voiced; so it is undefined on the
\* first 9 ticks, and defined on any later tick where both conditions are met
\* even if it was undefined on the tick before.
PitchWindowAt(k) == LastN(SubSeq(gh.pitch, 1, k), TONE_HISTORY_SIZE)
LoudnessWindowAt(k) == LastN(SubSeq(gh.rms, 1, k), TONE_HISTORY_SIZE)
VoicedCount(w) == Cardinality({j \in 1..Len(w) : w[j] > 0})
C12_ToneUndefinedWhen ==
  \A k \in 1..Len(gh.events) :
    /\ (gh.events[k].tone_score = Undef) <=>
         \/ Len(PitchWindowAt(k)) < 10
         \/ Len(LoudnessWindowAt(k)) < 10
         \/ VoicedCount(PitchWindowAt(k)) < 5
    /\ k <= 9 => gh.events[k].tone_score = Undef

\* A tick past the tenth has no score because fewer than 5 samples are
\* voiced, and the very next tick has one.
C12_Witness ==
  \E k \in 10..(Len(gh.events) - 1) :
    /\ gh.events[k].tone_score = Undef
    /\ VoicedCount(PitchWindowAt(k)) = 4
    /\ gh.events[k + 1].tone_score # Undef

\* C13: a defined tone score is clamp(-1, 1, 1.5 * (0.25 * varianceSubscore +
\* 0.25 * rateSubscore + 0.5 * sentimentSubscore)), a function of the voiced
\* pitch samples, the pace window and the sentiment window alone.
VoicedOf(w) == SelectSeq(w, LAMBDA x : x > 0)
CvThousandths(v) ==
  (ISqrt(10000 * (Len(v) * SumSq(v) - SumSeq(v) * SumSeq(v))) * 10) \div SumSeq(v)
VarianceSubscore(pitch) == (CvThousandths(VoicedOf(pitch)) - 70) * 20
RateSubscore(wpm) ==
  IF wpm = <<>> THEN 0
  ELSE TruncDiv((SumSeq(wpm) - 135 * Len(wpm)) * 1000, 35 * Len(wpm))
SentimentSubscore(sent) ==
  IF sent = <<>> THEN 0 ELSE TruncDiv(SumSeq(sent), Len(sent))
ToneFormula(pitch, wpm, sent) ==
  LET mix == VarianceSubscore(pitch) + RateSubscore(wpm) + 2 * SentimentSubscore(sent)
      amplified == TruncDiv(3 * mix, 8)
  IN IF amplified > 1000 THEN 1000 ELSE IF amplified < -1000 THEN -1000 ELSE amplified
C13_ToneFormula ==
  (probe.fn = "calculateToneScore" /\ IsDef(probe.res)) =>
    Val(probe.res) = ToneFormula(probe.arg.pitch, probe.arg.wpm, probe.arg.sent)

\* A score strictly inside the range, from a loud window with varied pitch,
\* a non-zero rate subscore and a non-empty sentiment window.
C13_Witness ==
  /\ probe.fn = "calculateToneScore"
  /\ IsDef(probe.res)
  /\ Val(probe.res) > -1000
  /\ Val(probe.res) < 1000
  /\ Val(probe.res) # 0
  /\ probe.arg.rms[1] = 500
  /\ probe.arg.wpm[1] = 136
  /\ probe.arg.sent # <<>>
  /\ \E j \in 1..Len(probe.arg.pitch) : probe.arg.pitch[j] = 140

\* A step in which publishMetrics ran.
IsTick == out'.published = out.published + 1
TickEvent == Val(out'.lastPublished)

\* C14: on a tick with ASR available the word timeline loses exactly the
\* entries that arrived before now - WPM_WINDOW_SEC seconds, and the event's
\* wpm is round(n / WPM_WINDOW_SEC * 60) for the n entries left: 6 for 3
\* entries, 0 (not undefined) for none.
C14_WpmWindow ==
  [][ (IsTick /\ env.asrAvailable) =>
        LET cutoff == env.now - WPM_WINDOW_SEC * 1000
            kept == SelectSeq(ctl.wordTimestamps, LAMBDA w : ~(w.t < cutoff))
            n == Len(kept)
        IN /\ ctl'.wordTimestamps = kept
           /\ TickEvent.wpm = Some((120 * n + WPM_WINDOW_SEC) \div (2 * WPM_WINDOW_SEC))
           /\ n = 3 => TickEvent.wpm = Some(6)
           /\ n = 0 => TickEvent.wpm = Some(0) ]_vars

\* Three words were counted as 6 wpm, a later tick kept words that arrived
\* exactly WPM_WINDOW_SEC seconds before it, and the last tick pruned them.
C14_Witness ==
  /\ Len(gh.events) = 3
  /\ gh.events[1].wpm = Some(6)
  /\ gh.events[2].wpm = Some(6)
  /\ gh.at[2] = gh.at[1] + WPM_WINDOW_SEC * 1000
  /\ gh.at[3] = gh.at[2] + TICK_MS
  /\ gh.events[3].wpm = Some(0)
  /\ ctl.wordTimestamps = <<>>
  /\ ctl.transcriptFinal # <<>>

\* C16: in a session started with useASR false no event carries a wpm.
C16_WpmOmittedWhenDisabled ==
  (cnt.starts = 1 /\ ~startOpts[1].useASR) =>
    \A k \in 1..Len(gh.events) : gh.events[k].wpm = Undef

\* C18: on every tick fillers_per_min is defined, is not negative, is 0 when
\* no time has elapsed since startTime, and otherwise equals the filler count
\* over the elapsed minutes.
C18_FillersPerMin ==
  [][ IsTick =>
        LET f == TickEvent.fillers_per_min
            elapsedMs == env.now - ctl.startTime
        IN /\ f.den > 0
           /\ f.num >= 0
           /\ elapsedMs = 0 => f.num = 0
           /\ elapsedMs # 0 => f.num * elapsedMs = ctl.fillerCount * 60000 * f.den ]_vars

\* A tick with fillers counted and time elapsed, then a tick in the very
\* millisecond startTime was set, with a filler already in the transcript.
C18_Witness ==
  /\ Len(gh.events) >= 2
  /\ gh.events[1].fillers_per_min.num > 0
  /\ gh.events[2].t = 0
  /\ gh.events[2].transcript_final = <<"u", "m">>
  /\ gh.events[2].fillers_per_min.num = 0

C17_WpmFallback ==
  ~env.asrAvailable =>
    \A k \in 1..Len(gh.events) : IsDef(gh.events[k].wpm)

\* C19: between start() calls the filler count never decreases and changes
\* only by the number of filler matches of a final transcript chunk, and the
\* summary's total_filler_count is that counter whatever the history holds.
FillerMatches(text) ==
  Cardinality({k \in 1..Len(SplitWs(text)) : SplitWs(text)[k] \in FillerWords})
IsSuffix(text, whole) ==
  /\ Len(text) <= Len(whole)
  /\ SubSeq(whole, Len(whole) - Len(text) + 1, Len(whole)) = text
C19_FillerCountMonotonic ==
  [][ /\ cnt'.starts = cnt.starts => ctl'.fillerCount >= ctl.fillerCount
      /\ (cnt'.starts = cnt.starts /\ ctl'.fillerCount # ctl.fillerCount) =>
           \E text \in lim.texts \cup lim.altTexts :
             /\ IsSuffix(text, ctl'.transcriptFinal)
             /\ ctl'.fillerCount = ctl.fillerCount + FillerMatches(text)
      /\ (probe'.fn = "getMetricsSummary" /\ UNCHANGED <<ctl, env, cnt, startPc>>) =>
           probe'.res.speech.total_filler_count = ctl.fillerCount ]_vars

\* The summary was read after the history evicted events, with fillers
\* counted from two chunks.
C19_Witness ==
  /\ probe.fn = "getMetricsSummary"
  /\ Len(gh.events) > MAX_METRICS_BUFFER
  /\ probe.res.session.totalDataPoints = MAX_METRICS_BUFFER
  /\ probe.res.speech.total_filler_count = 2
  /\ ctl.fillerCount = 2

\* C20: an optional field whose signal has not been received or is not
\* available is undefined: pitch_hz and rms before any audio frame, the face
\* fields before any face frame, wpm when recognition is unavailable or was
\* not asked for.
C20_NoSentinel ==
  \A k \in 1..Len(gh.events) :
    LET e == gh.events[k] IN
    /\ ~gh.heard[k] => (e.pitch_hz = Undef /\ e.rms = Undef)
    /\ ~gh.faceSeen =>
         (e.head = Undef /\ e.gaze_jitter = Undef /\ e.smile = Undef
          /\ e.blink_per_min = Undef)
    /\ (cnt.starts = 1 /\ ~(env.asrAvailable /\ startOpts[1].useASR)) => e.wpm = Undef

\* An ingestion callback ran in this step.
IsIngest == cnt'.ingest = cnt.ingest + 1

\* C21: the audio and face fields of a tick's event come from the most recent
\* frame of each producer received before the tick (undefined when there is
\* none), and a tick pushes exactly one sample into each of the pitch,
\* loudness and pace windows, while a frame's arrival pushes none.
C21_LatestValue ==
  [][ /\ IsTick =>
           LET a == gh.lastAudio
               f == gh.lastFace
               e == TickEvent
           IN /\ e.rms = a.rms
              /\ e.pitch_hz = (IF a.pitch # Undef /\ Val(a.pitch) > 0 THEN a.pitch ELSE Undef)
              /\ e.head = (IF f.yaw = Undef THEN Undef
                           ELSE Some([yaw |-> Val(f.yaw), pitch |-> OrZero(f.pitch)]))
              /\ e.gaze_jitter = f.gazeJitter
              /\ e.smile = f.smile
              /\ e.blink_per_min = f.blinkPerMin
              /\ Len(ctl.pitchHistory) < TONE_HISTORY_SIZE =>
                   /\ ctl'.pitchHistory = Append(ctl.pitchHistory, OrZero(a.pitch))
                   /\ ctl'.rmsHistory = Append(ctl.rmsHistory, OrZero(a.rms))
                   /\ Len(ctl'.wpmHistory) = Len(ctl.wpmHistory) + 1
      /\ IsIngest =>
           /\ ctl'.pitchHistory = ctl.pitchHistory
           /\ ctl'.rmsHistory = ctl.rmsHistory
           /\ ctl'.wpmHistory = ctl.wpmHistory ]_vars

\* Two audio frames arrived between two ticks, and the later tick's event
\* carries the second one.
C21_Witness ==
  /\ gh.superseded
  /\ ~gh.unread
  /\ Len(gh.events) >= 2
  /\ gh.events[1].rms = Undef
  /\ gh.events[2].rms = gh.lastAudio.rms
  /\ Len(ctl.rmsHistory) = Len(gh.events)

\* C29: within a session the final transcript only grows, by a space and the
\* chunk (the chunk alone when it was empty); an interim result replaces the
\* interim buffer only; so each event's transcript_final is a prefix of that
\* of every later event.
IsPrefix(a, b) == Len(a) <= Len(b) /\ SubSeq(b, 1, Len(a)) = a
C29_TranscriptAppendOnly ==
  [][ cnt'.starts = cnt.starts =>
        /\ ctl'.transcriptFinal # ctl.transcriptFinal =>
             /\ \E text \in lim.texts :
                  ctl'.transcriptFinal =
                    (IF ctl.transcriptFinal = <<>> THEN text
                     ELSE ctl.transcriptFinal \o <<" ">> \o text)
             /\ ctl'.transcriptInterim = <<>>
        /\ (IsIngest /\ ctl'.transcriptInterim # <<>>) =>
             /\ ctl'.transcriptInterim \in lim.interimTexts
             /\ ctl'.transcriptFinal = ctl.transcriptFinal
        /\ IsTick =>
             /\ TickEvent.transcript_final = ctl.transcriptFinal
             /\ \A k \in 1..Len(gh.events) :
                  IsPrefix(gh.events[k].transcript_final, TickEvent.transcript_final) ]_vars

\* Two chunks arrived on either side of a tick.
C29_Witness ==
  /\ Len(gh.events) >= 2
  /\ gh.events[1].transcript_final = <<"u", "m">>
  /\ gh.events[2].transcript_final = <<"u", "m", " ", "b", "a", "d">>
  /\ gh.events[2].transcript_partial = <<>>

\* C30: an ingestion callback, also one that arrives after stop(), leaves the
\* history and the published and dispatched events as they are; the history
\* changes only by a tick or by start()'s reset.
C30_IngestionKeepsHistory ==
  [][ /\ IsIngest =>
           /\ ctl'.allMetrics = ctl.allMetrics
           /\ out' = out
      /\ ctl'.allMetrics # ctl.allMetrics => (IsTick \/ cnt'.starts = cnt.starts + 1) ]_vars

\* An audio frame arrived after stop() was called on a session with history.
C30_Witness ==
  /\ gh.lateFrames > 0
  /\ gh.stopped
  /\ ctl.allMetrics # <<>>
  /\ ctl.latestAudioData # EmptyAudio

\* C22: the median of a non-empty set of values is the middle element of the
\* sorted values for an odd count and the lower-middle element (0-based index
\* n/2 - 1) for an even count.
SortedValues(v) == SortSeq(v, LAMBDA a, b : a < b)
C22_MedianLowerMiddle ==
  (probe.fn = "calculateStats" /\ probe.arg # <<>>) =>
    LET n == Len(probe.arg)
        sorted == SortedValues(probe.arg)
    IN Val(probe.res).median =
         (IF n % 2 = 0 THEN sorted[n \div 2] ELSE sorted[(n + 1) \div 2])

\* A step in which getMetricsSummary was called; probe' holds its result.
IsSummary ==
  /\ probe'.fn = "getMetricsSummary"
  /\ UNCHANGED <<ctl, env, cnt, startPc>>

\* C23: in the summary a metric that was undefined on every tick of the
\* history has no statistics (null), and the statistics of any other metric
\* are those of the ticks where it was defined: their count gives the mean,
\* their smallest and largest values the min and max.
DefinedTicks(f) == {k \in 1..Len(ctl.allMetrics) : ctl.allMetrics[k][f] # Undef}
RECURSIVE SumOver(_, _)
SumOver(f, ticks) ==
  IF ticks = {} THEN 0
  ELSE LET k == CHOOSE x \in ticks : TRUE
       IN Val(ctl.allMetrics[k][f]) + SumOver(f, ticks \ {k})
EntryAgrees(entry, f, scale) ==
  LET ticks == DefinedTicks(f) IN
  IF ticks = {} THEN entry = Undef
  ELSE /\ entry # Undef
       /\ \A k \in ticks : /\ Val(entry).min <= Val(ctl.allMetrics[k][f])
                            /\ Val(entry).max >= Val(ctl.allMetrics[k][f])
       /\ \E k \in ticks : Val(entry).min = Val(ctl.allMetrics[k][f])
       /\ \E k \in ticks : Val(entry).max = Val(ctl.allMetrics[k][f])
       /\ \E k \in ticks : Val(entry).median = Val(ctl.allMetrics[k][f])
       /\ LET total == 100 * SumOver(f, ticks)
              count == Cardinality(ticks) * scale
          IN /\ 2 * count * Val(entry).mean <= 2 * total + count
             /\ 2 * count * Val(entry).mean > 2 * total - count
C23_StatsOverDefined ==
  [][ IsSummary =>
        /\ EntryAgrees(probe'.res.speech.wpm, "wpm", 1)
        /\ EntryAgrees(probe'.res.speech.pitch_hz, "pitch_hz", 1)
        /\ EntryAgrees(probe'.res.speech.pause_ratio_pct, "pause_ratio", 1)
        /\ EntryAgrees(probe'.res.face.blink_per_min, "blink_per_min", 1)
        /\ EntryAgrees(probe'.res.face.gaze_stability, "gaze_jitter", 1)
        /\ EntryAgrees(probe'.res.tone, "tone_score", 1000) ]_vars

\* The summary just read covers three ticks: pitch was defined on the last
\* two only, no face frame arrived and the tone score was never defined.
C23_Witness ==
  /\ probe.fn = "getMetricsSummary"
  /\ probe.res = getMetricsSummary(ctl, env.now)
  /\ Len(ctl.allMetrics) = 3
  /\ ctl.allMetrics[1].pitch_hz = Undef
  /\ ctl.allMetrics[2].pitch_hz = Some(200)
  /\ ctl.allMetrics[3].pitch_hz = Some(220)
  /\ Val(probe.res.speech.pitch_hz).mean = 21000
  /\ Val(probe.res.speech.pitch_hz).stdDev = 1000
  /\ probe.res.face.blink_per_min = Undef
  /\ probe.res.tone = Undef

\* C24: when every tick of a session of N >= 1 ticks published the same
\* loudness c, the summary has a loudness entry with mean = median = min =
\* max = c and stdDev = 0.
LoudnessEntry(summary) ==
  IF "rms" \in DOMAIN summary.speech THEN summary.speech.rms
  ELSE IF "loudness" \in DOMAIN summary.speech THEN summary.speech.loudness
  ELSE Undef
C24_ConstantLoudness ==
  [][ ( /\ IsSummary
        /\ ctl.allMetrics # <<>>
        /\ \A k \in 1..Len(ctl.allMetrics) :
             /\ ctl.allMetrics[k].rms # Undef
             /\ ctl.allMetrics[k].rms = ctl.allMetrics[1].rms ) =>
        LET c == Val(ctl.allMetrics[1].rms)
            entry == LoudnessEntry(probe'.res)
        IN /\ entry # Undef
           /\ Val(entry).median = c
           /\ Val(entry).min = c
           /\ Val(entry).max = c
           /\ Val(entry).mean = 100 * c
           /\ Val(entry).stdDev = 0 ]_vars

\* C25: while a session is running the duration reported by getMetricsDump
\* and getMetricsSummary is now - start time and is not negative, in the
\* first session of a controller and in every later one.
C25_Duration ==
  ctl.isRunning =>
    /\ getMetricsDump(ctl, env.now).durationMs = env.now - ctl.startTime
    /\ getMetricsDump(ctl, env.now).durationMs >= 0
    /\ getMetricsSummary(ctl, env.now).session.durationSeconds
         = RoundDiv(env.now - ctl.startTime, 1000)

\* A step in which a start() call made after an earlier stop() completes.
CompletesAfterStop ==
  /\ cnt.stops >= 1
  /\ startPc[1] = "resolved"
  /\ startPc[2] # "resolved"
  /\ startPc'[2] = "resolved"

BuffersEmpty(c) ==
  /\ c.allMetrics = <<>>
  /\ c.transcriptFinal = <<>>
  /\ c.transcriptInterim = <<>>
  /\ c.wordTimestamps = <<>>
  /\ c.fillerCount = 0
  /\ c.pitchHistory = <<>>
  /\ c.rmsHistory = <<>>
  /\ c.wpmHistory = <<>>
  /\ c.sentimentHistory = <<>>

\* C26: when start() completes after an earlier stop(), the history, the
\* transcripts, the word timeline, the filler count, the audio and face
\* snapshots and the four rolling windows are empty or zero.
C26_RestartEmpty ==
  [][ CompletesAfterStop =>
        /\ BuffersEmpty(ctl')
        /\ ctl'.latestAudioData = EmptyAudio
        /\ ctl'.latestFaceData = EmptyFace ]_vars

\* C26 (amended): when start() completes after an earlier stop(), the
\* history, the transcripts, the word timeline, the filler count, the face
\* snapshot and the four rolling windows are empty or zero, and the audio
\* snapshot holds nothing but the last frame received since that start() was
\* called (it is empty when none was); the events of the new session then
\* carry no audio, face or transcript data from before that call.
C26_RestartFresh ==
  [][ /\ CompletesAfterStop =>
           /\ BuffersEmpty(ctl')
           /\ ctl'.latestFaceData = EmptyFace
           /\ ctl'.latestAudioData = gh'.lastAudio
           /\ ~gh'.audioSeen => ctl'.latestAudioData = EmptyAudio
      /\ (IsTick /\ cnt.stops >= 1 /\ startPc[2] = "resolved") =>
           /\ Len(ctl'.allMetrics) = Len(gh'.at)
           /\ TickEvent.rms = gh.lastAudio.rms
           /\ ~gh.audioSeen => (TickEvent.rms = Undef /\ TickEvent.pitch_hz = Undef)
           /\ ~gh.faceSeen => (TickEvent.head = Undef /\ TickEvent.blink_per_min = Undef)
           /\ gh.sent = <<>> => TickEvent.transcript_final = <<>> ]_vars

\* The second session has published its first event: the first session had
\* published one before it was stopped, a frame of loudness 20 arrived in the
\* second session, and the history holds the new event alone, with that frame
\* and an empty transcript.
C26_Witness ==
  /\ cnt.stops >= 1
  /\ startPc = <<"resolved", "resolved">>
  /\ ctl.isRunning
  /\ out.published = 2
  /\ Len(ctl.allMetrics) = 1
  /\ ctl.allMetrics[1].rms = Some(20)
  /\ ctl.allMetrics[1].transcript_final = <<>>
  /\ cnt.ingest = MaxIngest

\* C27: a listener registered through onMetrics of one controller is invoked
\* only for the events of that controller's ticks, never for those of the
\* other controller.
C27_ListenerIsolation ==
  \A k \in 1..Len(out.listeners) :
    /\ out.listeners[k].owner = "A" => out.received[k].B = 0
    /\ out.listeners[k].owner = "B" => out.received[k].A = 0

\* A step in which an event is published while a registered listener throws.
PublishesToFaulty ==
  /\ out'.published = out.published + 1
  /\ \E k \in 1..Len(out.listeners) :
       out.listeners[k].active /\ out.listeners[k].throws

LastOf(history) == history[Len(history)]

C31_WordEntries ==
  [][ (probe.fn = "input" /\ probe'.fn = "onFinal") =>
        LET old == Len(ctl.wordTimestamps)
            new == Len(ctl'.wordTimestamps)
        IN /\ SubSeq(ctl'.wordTimestamps, 1, old) = ctl.wordTimestamps
           /\ new = old + WordCount(probe.arg)
           /\ \A k \in (old + 1)..new : ctl'.wordTimestamps[k].t = env.now ]_vars

\* The history of the controller whose tick a step is.
PublisherHistory == IF ctl' # ctl THEN ctl.allMetrics ELSE env.peer.allMetrics
PublisherHistoryAfter == IF ctl' # ctl THEN ctl'.allMetrics ELSE env'.peer.allMetrics

\* C32: a tick produces exactly one event: it is appended to the history,
\* published once and dispatched once as creao:metrics with the same event,
\* and a listener invoked during the tick finds the event it receives as the
\* last element of getMetricsDump().metrics.
C32_TickOrder ==
  [][ out'.published # out.published =>
        /\ out'.published = out.published + 1
        /\ out'.dispatched = out.dispatched + 1
        /\ out'.lastDispatched = out'.lastPublished
        /\ PublisherHistoryAfter
             = Append(PublisherHistory, Val(out'.lastPublished))
        /\ \A k \in 1..Len(out.listeners) :
             out.listeners[k].active =>
               /\ out'.observed # <<>>
               /\ LastOf(out'.observed) = Val(out'.lastPublished)
               /\ out'.observed = getMetricsDump(
                     IF ctl' # ctl THEN ctl' ELSE env'.peer, env.now).metrics ]_vars

\* A listener has been invoked for the second tick of the controller and
\* read a history of two events ending with the event it was given.
C32_Witness ==
  /\ Len(out.listeners) >= 1
  /\ out.listeners[1].active
  /\ out.received[1].A = 2
  /\ out.received[1].B = 0
  /\ Len(out.observed) = 2
  /\ out.observed = ctl.allMetrics
  /\ LastOf(out.observed) = Val(out.lastDispatched)
  /\ out.observed[1] # out.observed[2]

\* The number of lifecycle events of one type dispatched so far.
CountOf(type, events) == Len(SelectSeq(events, LAMBDA x : x = type))

\* C33: a stop() call made while an earlier stop() of the running session is
\* suspended at the closing of the audio context has no effect: the end time
\* stays, no cleanup step runs again, the call does not suspend in its turn,
\* and once it has settled the session has one creao:stopped event.
C33_OverlappingStops ==
  [][ /\ (cnt'.stops = cnt.stops + 1 /\ gh.stopped /\ stops # <<>>) =>
           /\ ctl' = ctl
           /\ env' = env
           /\ stops' = stops
           /\ out' = out
      /\ (gh.stopped /\ lim.starts = 1) =>
           CountOf("creao:stopped", out'.lifecycle) <= 1 ]_vars

\* C34: start() called while the session is running rejects with 'Already
\* running' and changes nothing: the controller's state (history,
\* transcripts, filler count, windows, start time), the timers, the bus and
\* the window are as before the call, so the ticks continue.
C34_StartOnRunningRejects ==
  [][ (cnt'.starts = cnt.starts + 1 /\ ctl.isRunning) =>
        /\ startPc'[cnt'.starts] = "rejectedRunning"
        /\ ctl' = ctl
        /\ env' = env
        /\ stops' = stops
        /\ out' = out
        /\ ctl'.metricsIntervalId \in env'.timers ]_vars

\* The second start() was rejected while the session held a history and a
\* transcript; the session is still running on its timer.
C34_Witness ==
  /\ startPc = <<"resolved", "rejectedRunning">>
  /\ ctl.isRunning
  /\ ctl.allMetrics # <<>>
  /\ ctl.transcriptFinal # <<>>
  /\ ctl.metricsIntervalId \in env.timers
  /\ env.due # {}

\* A step in which a start() call rejects because an initialization step
\* failed.
StartFails ==
  \E i \in StartIds : startPc[i] # "rejected" /\ startPc'[i] = "rejected"

\* C35: when an initialization step of start() fails, start() rejects and
\* leaves the controller not running, with no tick timer, no live media
\* stream, no face worker and no open audio context.
C35_FailedStartCleansUp ==
  [][ StartFails =>
        /\ ~ctl'.isRunning
        /\ env'.timers = {}
        /\ env'.liveStreams = {}
        /\ env'.liveWorkers = {}
        /\ env'.liveContexts = {}
        /\ ctl'.stream = NULL
        /\ ctl'.faceWorker = NULL
        /\ ctl'.audioContext = NULL ]_vars

\* C36: the lifecycle events are paired: creao:stopped is dispatched only
\* after a creao:started not yet answered by a creao:stopped, and between two
\* creao:started events there is exactly one creao:stopped; the events
\* alternate, beginning with creao:started.
C36_LifecyclePaired ==
  \A k \in 1..Len(out.lifecycle) :
    out.lifecycle[k] = (IF k % 2 = 1 THEN "creao:started" ELSE "creao:stopped")

\* C37: while speech recognition is unavailable no sample enters the rolling
\* pace window, so the rate sub-score of the tone score is 0.
C37_NoPaceSampleWithoutAsr ==
  ~env.asrAvailable =>
    /\ ctl.wpmHistory = <<>>
    /\ RateSubscore(ctl.wpmHistory) = 0

\* C38: after every tick the pitch, loudness and pace windows have the same
\* length, min(number of ticks since the session's start, 30); the samples
\* of a tick are pushed before its metrics are computed, so the 10th tick
\* computes its tone score on 10 samples and has one when at least 5 of the
\* pitch samples are voiced.
C38_WindowLengths ==
  [][ IsTick =>
        LET ticks == Len(gh'.at)
            n == Min2(ticks, TONE_HISTORY_SIZE)
        IN /\ Len(ctl'.pitchHistory) = n
           /\ Len(ctl'.rmsHistory) = n
           /\ Len(ctl'.wpmHistory) = n
           /\ ticks = 10 =>
                (TickEvent.tone_score # Undef
                   <=> VoicedCount(ctl'.pitchHistory) >= 5) ]_vars

\* The session is past its 30th tick with the three windows at 30 samples,
\* and its 10th tick had a tone score.
C38_Witness ==
  /\ Len(gh.at) > TONE_HISTORY_SIZE
  /\ Len(ctl.pitchHistory) = TONE_HISTORY_SIZE
  /\ Len(ctl.rmsHistory) = TONE_HISTORY_SIZE
  /\ Len(ctl.wpmHistory) = TONE_HISTORY_SIZE
  /\ gh.events[10].tone_score # Undef
  /\ gh.events[9].tone_score = Undef

\* C39: the metrics sequence getMetricsDump() returned after stop() is not
\* changed by any later operation on the controller: the array the caller
\* holds, and the one a later getMetricsDump() returns, keep the events
\* recorded at the stop, through a later start() and the next session's ticks.
C39_DumpStable ==
  probe.fn = "getMetricsDump" =>
    /\ HeldMetrics(ctl, probe.res) = probe.res.metrics
    /\ getMetricsDump(ctl, env.now).metrics = probe.res.metrics

====
